---- MODULE Spec2Model ----
(***************************************************************************)
(* Model of app.py, the Streamlit "Cashflow Model Validator".  One run of  *)
(* the script is a walk of pc through its blocks: the previous-file        *)
(* comparison, the load of the current file with the required-column       *)
(* check, the formula analysis, the recalculations, the difference checks  *)
(* and the verdict.                                                        *)
(*                                                                         *)
(* Numbers are exact rationals <<numerator, denominator>> in lowest terms  *)
(* with a positive denominator; the model's inputs are chosen so that no   *)
(* intermediate value leaves TLC's integer range.                          *)
(***************************************************************************)
EXTENDS Integers, Sequences, FiniteSets, TLC

\* ---------------------------------------------------------------- bounds
MaxRows == 3
MaxLen == 3
MaxPerturb == 1

\* ------------------------------------------------------ rational numbers
RECURSIVE GCD(_, _)
GCD(a, b) == IF b = 0 THEN a ELSE GCD(b, a % b)

AbsInt(a) == IF a < 0 THEN -a ELSE a

Norm(p, q) ==
    LET s == IF q < 0 THEN -1 ELSE 1
        g == GCD(AbsInt(p), AbsInt(q))
    IN  <<(s * p) \div g, (s * q) \div g>>

R(p, q) == Norm(p, q)
Zero == <<0, 1>>
One == <<1, 1>>

Add(x, y) ==
    LET g == GCD(x[2], y[2])
        l == (x[2] \div g) * y[2]
    IN  Norm(x[1] * (l \div x[2]) + y[1] * (l \div y[2]), l)

Neg(x) == <<-x[1], x[2]>>
Sub(x, y) == Add(x, Neg(y))

Mul(x, y) ==
    LET g1 == GCD(AbsInt(x[1]), y[2])
        g2 == GCD(AbsInt(y[1]), x[2])
    IN  Norm((x[1] \div g1) * (y[1] \div g2), (x[2] \div g2) * (y[2] \div g1))

Div(x, y) == Mul(x, Norm(y[2], y[1]))

\* x > y: the sign of x - y (denominators are positive)
Gt(x, y) == Sub(x, y)[1] > 0

\* abs() of a number
Abs(x) == <<AbsInt(x[1]), x[2]>>

\* ------------------------------------------------------------ sequences
RECURSIVE SeqSum(_)
SeqSum(s) == IF s = <<>> THEN Zero ELSE Add(SeqSum(SubSeq(s, 1, Len(s) - 1)), s[Len(s)])

Range(s) == {s[i] : i \in DOMAIN s}

\* all sequences over S of length 0..k
SeqsUpTo(S, k) == UNION {[1..m -> S] : m \in 0..k}

\* ------------------------------------------------------- program constants
tol == R(1, 1000000)

input_columns == {"Time", "Cashflow", "Death rate", "Discount rate"}

reported_columns ==
    {"Survival rate", "Discount factor", "Expected Cashflow", "Discounted cashflow", "PVFP"}

required_columns == input_columns \cup reported_columns

described_columns == required_columns

\* ------------------------------------------------------- recalculations
\* df['Discount factor (calc)'] = 1.0, then row by row from the previous
\* computed value; rate is the 'Discount rate' column
RECURSIVE DiscountFactorCalc(_)
DiscountFactorCalc(rate) ==
    IF Len(rate) = 0 THEN <<>>
    ELSE IF Len(rate) = 1 THEN <<One>>
    ELSE LET prev == DiscountFactorCalc(SubSeq(rate, 1, Len(rate) - 1))
         IN  Append(prev, Div(prev[Len(prev)], Add(One, rate[Len(rate)])))

\* the recurrence without the carried value: each later row is only
\* (1 - death rate)
SurvivalRateCalcNoCarry(death) ==
    [i \in 1..Len(death) |-> IF i = 1 THEN One ELSE Sub(One, death[i])]

\* df['Survival rate (calc)'] = 1.0, then row by row from the previous
\* computed value; death is the 'Death rate' column
RECURSIVE SurvivalRateCalc(_)
SurvivalRateCalc(death) ==
    IF Len(death) = 0 THEN <<>>
    ELSE IF Len(death) = 1 THEN <<One>>
    ELSE LET prev == SurvivalRateCalc(SubSeq(death, 1, Len(death) - 1))
         IN  Append(prev, Mul(prev[Len(prev)], Sub(One, death[Len(death)])))

\* elementwise product of two columns of one table
ColMul(a, b) == [i \in DOMAIN a |-> Mul(a[i], b[i])]

\* elementwise abs(a - b)
ColAbsDiff(a, b) == [i \in DOMAIN a |-> Abs(Sub(a[i], b[i]))]

\* a scalar assigned to a column: one copy per row
Broadcast(x, n) == [i \in 1..n |-> x]

\* -------------------------------------------------- the uploaded workbook
\* A raw worksheet cell as openpyxl returns it with data_only=False: a str
\* (its characters in s), a number, or None.
StrCell(chars) == [t |-> "str", s |-> chars]
NumCell == [t |-> "num", s |-> <<>>]
NoneCell == [t |-> "none", s |-> <<>>]

FormulaA == StrCell(<<"=", "A", "1", "+", "B", "1">>)
FormulaB == StrCell(<<"=", "A", "2", "+", "B", "2">>)

CellValues ==
    {FormulaA, FormulaB, StrCell(<<"A", "=">>), StrCell(<<>>), NumCell, NoneCell}

\* one period's input assumptions
Profiles ==
    { [cf |-> R(10, 1), q |-> R(1, 2), r |-> R(1, 4)],
      [cf |-> R(-4, 1), q |-> Zero,    r |-> One] }

FixedProfile == [cf |-> R(10, 1), q |-> R(1, 2), r |-> R(1, 4)]

Deltas == {R(1, 1000000), R(-1, 500000), R(1, 1000)}

\* The sheet whose calculated columns follow the column descriptions: each
\* survival rate and discount factor from the previous one, expected
\* cashflow = cashflow x survival rate, discounted cashflow = expected
\* cashflow x discount factor, PVFP = the sum of the discounted cashflows.
ConsistentSheet(rows) ==
    LET n == Len(rows)
        cf == [i \in 1..n |-> rows[i].cf]
        q  == [i \in 1..n |-> rows[i].q]
        r  == [i \in 1..n |-> rows[i].r]
        sr == SurvivalRateCalc(q)
        fa == DiscountFactorCalc(r)
        ecf == ColMul(cf, sr)
        dcf == ColMul(ecf, fa)
    IN  [c \in required_columns |->
            CASE c = "Time" -> [i \in 1..n |-> R(i, 1)]
              [] c = "Cashflow" -> cf
              [] c = "Death rate" -> q
              [] c = "Discount rate" -> r
              [] c = "Survival rate" -> sr
              [] c = "Discount factor" -> fa
              [] c = "Expected Cashflow" -> ecf
              [] c = "Discounted cashflow" -> dcf
              [] c = "PVFP" -> Broadcast(SeqSum(dcf), n)]

\* a perturbation adds d to the reported value of column col at row row
PerturbSites(n) == [col : reported_columns, row : 1..n, d : Deltas]

RECURSIVE PerturbSets(_, _)
PerturbSets(n, k) ==
    IF k = 0 THEN {{}}
    ELSE LET smaller == PerturbSets(n, k - 1)
         IN  smaller \cup
             {P \cup {p} : <<P, p>> \in
                 {x \in smaller \X PerturbSites(n) :
                     \A o \in x[1] : o.col # x[2].col \/ o.row # x[2].row}}

Perturbed(table, P) ==
    [c \in DOMAIN table |->
        [i \in DOMAIN table[c] |->
            IF \E p \in P : p.col = c /\ p.row = i
            THEN Add(table[c][i], (CHOOSE p \in P : p.col = c /\ p.row = i).d)
            ELSE table[c][i]]]

Without(table, M) == [c \in (DOMAIN table) \ M |-> table[c]]

RowsOf(table) == Len(table[CHOOSE c \in DOMAIN table : TRUE])

\* every cell of the sheet typed in as a number
LiteralCells(table) ==
    [h \in DOMAIN table |-> [i \in DOMAIN table[h] |-> NumCell]]

Workbook(table, cells) == [present |-> TRUE, table |-> table, cells |-> cells]

NoFile == [present |-> FALSE, table |-> <<>>, cells |-> <<>>]

\* a complete workbook of typed-in numbers, the reported cells of P off
NumericFile(rows, P) ==
    Workbook(Perturbed(ConsistentSheet(rows), P), LiteralCells(ConsistentSheet(rows)))

\* a workbook of n rows that lacks the columns M
MissingFile(n, M) ==
    LET t == Without(ConsistentSheet([i \in 1..n |-> FixedProfile]), M)
    IN  Workbook(t, LiteralCells(t))

\* a complete workbook in which the column probe holds cells, the other
\* columns typed-in numbers (the table keeps the numeric columns; a formula
\* cell's cached result is the consistent value)
FormulaFile(probe, cells) ==
    LET t == ConsistentSheet([i \in 1..Len(cells) |-> FixedProfile])
    IN  Workbook(t, [h \in (DOMAIN t) \cup {probe} |->
                        IF h = probe THEN cells ELSE [i \in 1..Len(cells) |-> NumCell]])

\* the cells of an extra 'Notes' column: formulas, texts, numbers, blanks
NotesCells == SeqsUpTo(CellValues, MaxLen)

\* the cells of the 'Survival rate' column: formulas and numbers
SurvivalCells == SeqsUpTo({FormulaA, FormulaB, NumCell}, MaxLen)

\* ------------------------------------------------------ formula analysis
\* isinstance(v, str) and v.startswith('=')
IsFormula(v) == v.t = "str" /\ Len(v.s) >= 1 /\ v.s[1] = "="

\* column_descriptions.get(header, "No specific description available.")
Description(header) ==
    IF header \in described_columns THEN header ELSE "No specific description available."

\* the classification that counts the formula cells instead of the distinct
\* formula texts
ClassifyByCount(header, values) ==
    LET formulas == SelectSeq(values, IsFormula)
    IN  IF formulas = <<>>
        THEN [kind |-> "Hardcoded values", formula |-> <<>>, desc |-> Description(header)]
        ELSE IF Len(formulas) = 1
        THEN [kind |-> "Formula-driven", formula |-> formulas[1].s, desc |-> Description(header)]
        ELSE [kind |-> "Formula-driven (varied formulas)", formula |-> <<>>,
              desc |-> Description(header)]

\* the body of the loop over column_formulas.items()
Classify(header, values) ==
    LET formulas == SelectSeq(values, IsFormula)
        unique_formulas == Range(formulas)
    IN  IF formulas = <<>>
        THEN [kind |-> "Hardcoded values", formula |-> <<>>, desc |-> Description(header)]
        ELSE IF Cardinality(unique_formulas) = 1
        THEN [kind |-> "Formula-driven", formula |-> formulas[1].s, desc |-> Description(header)]
        ELSE [kind |-> "Formula-driven (varied formulas)", formula |-> <<>>,
              desc |-> Description(header)]

\* ------------------------------------------------------------ differences
\* df['Expected Cashflow (calc)'] = df['Cashflow'] * df['Survival rate (calc)']
ExpectedCashflowCalc(d) == ColMul(d["Cashflow"], d["Survival rate (calc)"])

\* df['Discounted Cashflow (calc)'] = df['Expected Cashflow (calc)'] * df['Discount factor']
DiscountedCashflowCalc(d) == ColMul(d["Expected Cashflow (calc)"], d["Discount factor"])

\* df['PVFP (calc)'] = df['Discounted Cashflow (calc)'].sum()
PVFPCalc(d) == Broadcast(SeqSum(d["Discounted Cashflow (calc)"]), RowsOf(d))

\* the check with >= in place of >
AnyReaches(col) == \E i \in DOMAIN col : ~Gt(tol, col[i])

\* any(column > tol)
AnyExceeds(col) == \E i \in DOMAIN col : Gt(col[i], tol)

\* abs(calc - sheet) > tol
ScalarExceeds(calc, sheet) == Gt(Abs(Sub(calc, sheet)), tol)

DiscountFactorDiff(d) == ColAbsDiff(d["Discount factor"], d["Discount factor (calc)"])
SurvivalRateDiff(d) == ColAbsDiff(d["Survival rate"], d["Survival rate (calc)"])
ExpectedCFDiff(d) == ColAbsDiff(d["Expected Cashflow"], d["Expected Cashflow (calc)"])
\* the difference taken against the expected instead of the discounted
\* cashflow
DiscountedCFDiffOfExpected(d) ==
    ColAbsDiff(d["Discounted cashflow"], d["Expected Cashflow (calc)"])

DiscountedCFDiff(d) == ColAbsDiff(d["Discounted cashflow"], d["Discounted Cashflow (calc)"])

SurvivalMsg == "Survival rate calculation mismatch detected."
DiscountFactorMsg == "Discount factor calculation mismatch detected."
ExpectedMsg == "Expected Cashflow mismatch detected."
DiscountedMsg == "Discounted Cashflow mismatch detected."
\* the message also carries both values to two decimals
PVFPMsg == "PVFP mismatch."

AppendIf(list, cond, msg) == IF cond THEN Append(list, msg) ELSE list

\* ------------------------------------------------------------------ state
VARIABLES
    pc,               \* the block of the script the run is at
    uploaded_file,    \* the current-version upload (NoFile when none)
    previous_file,    \* whether a previous-version file is uploaded
    defined,          \* the script's names bound so far
    df,               \* the table: column name -> column
    column_formulas,  \* header -> raw cells of the data rows
    column_analysis,  \* header -> classification
    errors,           \* the list of mismatch messages
    pvfp_sheet,       \* <<>> for None, <<x>> for the sheet's PVFP
    missing_columns,  \* the columns named by the missing-columns error
    verdict,          \* what the run told the user
    exception         \* the unhandled exception that ended the run

vars == <<pc, uploaded_file, previous_file, defined, df, column_formulas,
          column_analysis, errors, pvfp_sheet, missing_columns, verdict, exception>>

Init ==
    /\ pc = "start"
    /\ \/ uploaded_file = NoFile
       \/ \E rows \in SeqsUpTo(Profiles, MaxRows) :
             \E P \in PerturbSets(Len(rows), MaxPerturb) :
                uploaded_file = NumericFile(rows, P)
       \/ \E n \in 0..MaxRows :
             \E M \in {X \in SUBSET required_columns : Cardinality(X) \in 1..2} :
                uploaded_file = MissingFile(n, M)
       \/ \E cells \in NotesCells : uploaded_file = FormulaFile("Notes", cells)
       \/ \E cells \in SurvivalCells : uploaded_file = FormulaFile("Survival rate", cells)
    /\ previous_file \in BOOLEAN
    /\ defined = {}
    /\ df = <<>>
    /\ column_formulas = <<>>
    /\ column_analysis = <<>>
    /\ errors = <<>>
    /\ pvfp_sheet = <<>>
    /\ missing_columns = {}
    /\ verdict = "none"
    /\ exception = "none"

\* if uploaded_file: / if previous_file:
Start ==
    /\ pc = "start"
    /\ pc' = IF ~uploaded_file.present THEN "idle"
             ELSE IF previous_file THEN "compare" ELSE "load"
    /\ UNCHANGED <<uploaded_file, previous_file, defined, df, column_formulas,
                   column_analysis, errors, pvfp_sheet, missing_columns, verdict,
                   exception>>

\* The previous-file branch: df_prev is read, then the anomaly loop reads
\* df[col].  df is bound only further down, by the load of the current file,
\* and a run starts with no names bound, so the read raises NameError.
ComparePrevious ==
    /\ pc = "compare"
    /\ defined' = defined \cup {"df_prev"}
    /\ IF "df" \in defined
       THEN pc' = "load" /\ UNCHANGED exception
       ELSE pc' = "crashed" /\ exception' = "NameError"
    /\ UNCHANGED <<uploaded_file, previous_file, df, column_formulas, column_analysis,
                   errors, pvfp_sheet, missing_columns, verdict>>

\* df = pd.read_excel(...); the required-column check; st.stop()
LoadCurrent ==
    /\ pc = "load"
    /\ df' = uploaded_file.table
    /\ defined' = defined \cup {"df"}
    /\ LET missing == required_columns \ DOMAIN uploaded_file.table
       IN  IF missing # {}
           THEN /\ missing_columns' = missing
                /\ verdict' = "Missing required columns"
                /\ pc' = "stopped"
           ELSE /\ pc' = "formulas"
                /\ UNCHANGED <<missing_columns, verdict>>
    /\ UNCHANGED <<uploaded_file, previous_file, column_formulas, column_analysis,
                   errors, pvfp_sheet, exception>>

\* load_workbook; the headers and the raw cells of every column; the
\* classification of every column
FormulaAnalysis ==
    /\ pc = "formulas"
    /\ column_formulas' = uploaded_file.cells
    /\ column_analysis' =
          [h \in DOMAIN uploaded_file.cells |-> Classify(h, uploaded_file.cells[h])]
    /\ pc' = "recalc"
    /\ UNCHANGED <<uploaded_file, previous_file, defined, df, errors, pvfp_sheet,
                   missing_columns, verdict, exception>>

\* the Recalculations block
Recalculate ==
    /\ pc = "recalc"
    /\ LET d1 == df @@ ("Discount factor (calc)" :> DiscountFactorCalc(df["Discount rate"]))
           d2 == d1 @@ ("Survival rate (calc)" :> SurvivalRateCalc(df["Death rate"]))
           d3 == d2 @@ ("Expected Cashflow (calc)" :> ExpectedCashflowCalc(d2))
           d4 == d3 @@ ("Discounted Cashflow (calc)" :> DiscountedCashflowCalc(d3))
           d5 == d4 @@ ("PVFP (calc)" :> PVFPCalc(d4))
       IN  df' = d5
    /\ errors' = <<>>
    /\ pc' = "diffs"
    /\ UNCHANGED <<uploaded_file, previous_file, defined, column_formulas,
                   column_analysis, pvfp_sheet, missing_columns, verdict, exception>>

\* the difference columns, the tolerance checks and the PVFP comparison;
\* df.loc[0, 'PVFP'] raises KeyError on a table without rows
CheckDifferences ==
    /\ pc = "diffs"
    /\ LET d == df @@ ("Discount factor diff" :> DiscountFactorDiff(df))
                   @@ ("Survival rate diff" :> SurvivalRateDiff(df))
                   @@ ("Expected CF diff" :> ExpectedCFDiff(df))
                   @@ ("Discounted CF diff" :> DiscountedCFDiff(df))
           e1 == AppendIf(errors, AnyExceeds(d["Survival rate diff"]), SurvivalMsg)
           e2 == AppendIf(e1, AnyExceeds(d["Discount factor diff"]), DiscountFactorMsg)
           e3 == AppendIf(e2, AnyExceeds(d["Expected CF diff"]), ExpectedMsg)
           e4 == AppendIf(e3, AnyExceeds(d["Discounted CF diff"]), DiscountedMsg)
       IN  /\ df' = d
           /\ IF "PVFP" \in DOMAIN df
              THEN IF RowsOf(df) = 0
                   THEN /\ errors' = e4
                        /\ exception' = "KeyError"
                        /\ pc' = "crashed"
                        /\ UNCHANGED pvfp_sheet
                   ELSE /\ pvfp_sheet' = <<df["PVFP"][1]>>
                        /\ errors' = AppendIf(e4,
                              ScalarExceeds(df["PVFP (calc)"][1], df["PVFP"][1]), PVFPMsg)
                        /\ pc' = "output"
                        /\ UNCHANGED exception
              ELSE /\ pvfp_sheet' = <<>>
                   /\ errors' = e4
                   /\ pc' = "output"
                   /\ UNCHANGED exception
    /\ UNCHANGED <<uploaded_file, previous_file, defined, column_formulas,
                   column_analysis, missing_columns, verdict>>

\* the Output block and the validation tables
Output ==
    /\ pc = "output"
    /\ verdict' = IF errors = <<>> THEN "All calculations are correct"
                  ELSE "Issues found"
    /\ pc' = "done"
    /\ UNCHANGED <<uploaded_file, previous_file, defined, df, column_formulas,
                   column_analysis, errors, pvfp_sheet, missing_columns, exception>>

Next ==
    \/ Start
    \/ ComparePrevious
    \/ LoadCurrent
    \/ FormulaAnalysis
    \/ Recalculate
    \/ CheckDifferences
    \/ Output

Spec == Init /\ [][Next]_vars

Terminal == pc \in {"idle", "done", "stopped", "crashed"}

TypeOK ==
    /\ pc \in {"start", "compare", "load", "formulas", "recalc", "diffs", "output",
               "idle", "done", "stopped", "crashed"}
    /\ exception \in {"none", "NameError", "KeyError"}
    /\ verdict \in {"none", "Missing required columns", "All calculations are correct",
                    "Issues found"}

\* ================================================================= claims
Table == uploaded_file.table

Complete == uploaded_file.present /\ required_columns \subseteq DOMAIN Table

Recalculated == pc \in {"diffs", "output", "done"} \/ exception = "KeyError"

Checked == pc \in {"output", "done"}

\* x > 1e-6 for x >= 0, on the numerator and the denominator:
\* x[1] / x[2] > 1 / 1000000  iff  x[1] > x[2] / 1000000  iff  x[1] > floor(x[2] / 1000000)
OverTol(x) == x[1] > x[2] \div 1000000

\* the sheet the input columns of t determine when every calculated column
\* is consistent
SheetOf(t) ==
    ConsistentSheet([i \in 1..RowsOf(t) |->
        [cf |-> t["Cashflow"][i], q |-> t["Death rate"][i], r |-> t["Discount rate"][i]]])

\* the reported values of t are exactly what the recurrences produce
RoundTrip(t) ==
    /\ RowsOf(t) >= 1
    /\ \A c \in reported_columns \ {"PVFP"} : t[c] = SheetOf(t)[c]
    /\ t["PVFP"][1] = SheetOf(t)["PVFP"][1]

\* C1: for every row the recomputed discounted cashflow is the recomputed
\* expected cashflow times the recomputed discount factor, so the reported
\* 'Discount factor' column has no influence on it.
C1_DiscountedUsesComputedFactor ==
    Recalculated =>
        \A i \in 1..RowsOf(df) :
            df["Discounted Cashflow (calc)"][i] =
                Mul(df["Expected Cashflow (calc)"][i], df["Discount factor (calc)"][i])

\* C2: with only the PVFP column absent the run is not aborted: it ends with
\* the four sequence metrics compared and the present value not checked.
C2_MissingPVFPNotFatal ==
    (/\ Terminal
     /\ uploaded_file.present
     /\ ~previous_file
     /\ DOMAIN Table = required_columns \ {"PVFP"})
        => (pc = "done" /\ pvfp_sheet = <<>> /\ PVFPMsg \notin Range(errors))

\* C3: a metric is reported as mismatched exactly when some absolute
\* difference between the reported and the computed value is strictly
\* greater than 1e-6; a difference equal to 1e-6 is no mismatch.
C3_MismatchIffOverTolerance ==
    Checked =>
        /\ SurvivalMsg \in Range(errors) <=>
             \E i \in 1..RowsOf(df) :
                OverTol(Abs(Sub(df["Survival rate"][i], df["Survival rate (calc)"][i])))
        /\ DiscountFactorMsg \in Range(errors) <=>
             \E i \in 1..RowsOf(df) :
                OverTol(Abs(Sub(df["Discount factor"][i], df["Discount factor (calc)"][i])))
        /\ ExpectedMsg \in Range(errors) <=>
             \E i \in 1..RowsOf(df) :
                OverTol(Abs(Sub(df["Expected Cashflow"][i], df["Expected Cashflow (calc)"][i])))
        /\ DiscountedMsg \in Range(errors) <=>
             \E i \in 1..RowsOf(df) :
                OverTol(Abs(Sub(df["Discounted cashflow"][i],
                                df["Discounted Cashflow (calc)"][i])))
        /\ PVFPMsg \in Range(errors) <=>
             OverTol(Abs(Sub(df["PVFP"][1], df["PVFP (calc)"][1])))

\* C3 witness: a checked run in which a reported survival rate is off by
\* exactly 1e-6 and nothing is flagged, the sheet having a second row
C3_Witness ==
    /\ pc = "done"
    /\ RowsOf(df) >= 2
    /\ \E i \in 1..RowsOf(df) : df["Survival rate diff"][i] = tol
    /\ errors = <<>>

\* C4: a run on a table that lacks one of the four input columns ends, with
\* or without a previous file, in the error naming the missing column, with
\* nothing recalculated and no verdict on mismatches.
C4_MissingInputColumnNamed ==
    (/\ Terminal
     /\ uploaded_file.present
     /\ input_columns \ DOMAIN Table # {})
        => /\ pc = "stopped"
           /\ verdict = "Missing required columns"
           /\ (input_columns \ DOMAIN Table) \subseteq missing_columns
           /\ errors = <<>>

MsgOf(c) ==
    CASE c = "Survival rate" -> SurvivalMsg
      [] c = "Discount factor" -> DiscountFactorMsg
      [] c = "Expected Cashflow" -> ExpectedMsg
      [] c = "Discounted cashflow" -> DiscountedMsg
      [] c = "PVFP" -> PVFPMsg

\* C6: from a sheet whose reported values equal the computed ones, one
\* reported value raised by 1e-3 gives exactly one mismatched metric, the
\* one that was perturbed.
C6_SinglePerturbationSingleMismatch ==
    (pc = "done" /\ Complete) =>
        \A p \in PerturbSites(RowsOf(Table)) :
            (p.d = R(1, 1000) /\ Table = Perturbed(SheetOf(Table), {p}))
                => errors = <<MsgOf(p.col)>>

\* C7: a column is hardcoded iff none of its cells is a string beginning
\* with '=', formula-driven with that text iff its formula cells all carry
\* one text, varied iff two or more formula texts occur; a column without
\* rows is hardcoded, and <<=A1+B1, =A2+B2, =A1+B1>> is varied.
C7_Classification ==
    pc \notin {"start", "compare", "load", "formulas", "idle", "stopped", "crashed"}
        \/ exception = "KeyError" =>
        \A h \in DOMAIN column_analysis :
            LET cells == uploaded_file.cells[h]
                texts == {cells[i].s : i \in
                            {j \in DOMAIN cells : /\ cells[j].t = "str"
                                                  /\ cells[j].s # <<>>
                                                  /\ Head(cells[j].s) = "="}}
                a == column_analysis[h]
            IN  /\ a.kind = "Hardcoded values" <=> texts = {}
                /\ a.kind = "Formula-driven" <=> Cardinality(texts) = 1
                /\ a.kind = "Formula-driven (varied formulas)" <=> Cardinality(texts) >= 2
                /\ a.kind = "Formula-driven" => texts = {a.formula}
                /\ cells = <<>> => a.kind = "Hardcoded values"
                /\ cells = <<FormulaA, FormulaB, FormulaA>>
                      => a.kind = "Formula-driven (varied formulas)"

\* C7 witness: the three-row column of the example has been classified, and
\* so has a column with one formula text among non-formula cells
C7_Witness ==
    /\ pc = "recalc"
    /\ \E h \in DOMAIN column_analysis :
          /\ uploaded_file.cells[h] = <<FormulaA, FormulaB, FormulaA>>
          /\ column_analysis[h].kind = "Formula-driven (varied formulas)"

C9_EmptyTableCompletes ==
    (/\ Terminal
     /\ Complete
     /\ ~previous_file
     /\ RowsOf(Table) = 0)
        => (pc = "done" /\ exception = "none" /\ errors = <<>>)

\* C10: a run with both files reads the current table only after it is
\* loaded, so it ends at the required-column check or after the validation,
\* never in an unhandled failure.
C10_PreviousRunReachesValidation ==
    (Terminal /\ uploaded_file.present /\ previous_file)
        => (pc \in {"done", "stopped"} /\ exception = "none")

====
